---------------------------- MODULE Spec2Model ----------------------------
(***************************************************************************)
(* X-drive drivebase on a PCA9685 16-channel PWM controller.               *)
(*                                                                         *)
(* src/test.py      : register protocol (mode, prescaler, channel duty)    *)
(* src/drivebase.py : Motor (signed percent -> direction + duty) and       *)
(*                    XDrive (four motors, kinematic mix, cleanup)         *)
(*                                                                         *)
(* Power commands are integer percents: for them Python's float            *)
(* arithmetic int((m / 100.0) * 4095) agrees with exact integer division. *)
(* A non-numeric power is a value float() cannot convert.                  *)
(*                                                                         *)
(* A bus transaction is one read_byte_data / write_byte_data.  Any one of  *)
(* them may raise; the exception propagates through every caller that has  *)
(* no try/except, so what is left of the operation is skipped.             *)
(***************************************************************************)
EXTENDS Integers, Sequences, FiniteSets, TLC

VARIABLES
    regs,       \* the controller's register file: register -> byte, where
                \* it differs from the power-on value
    log,        \* bus transactions of the most recent operation, in order
    ll,         \* _ll_cache is not None (module test is imported)
    pcaAddr,    \* PCA_ADDR, 0 while module test is not imported
    op,         \* the most recent operation and its arguments
    res,        \* how it ended: "ok" or the exception that left it
    prev,       \* the last earlier Motor.set_power that wrote a scaled duty
    calls,      \* operations issued so far
    pc,         \* XDrive.cleanup's position: the loop it is in
    idx,        \* ... and that loop's next iteration
    failed,     \* channels on which a write of the cleanup raised
    attempted   \* <<loop, channel>> for every channel the cleanup has written to

vars == <<regs, log, ll, pcaAddr, op, res, prev, calls, pc, idx, failed, attempted>>

----------------------------------------------------------------------------
(* Register map and bits *)

MODE1 == 0
MODE2 == 1
LED0_ON_L == 6
PRE_SCALE == 254
RESTART == 128
SLEEP == 16
AI == 32
OUTDRV == 4
FULL == 16
MaxDuty == 4095
NumChannels == 16

Candidates == <<64, 65, 66, 67, 68, 69, 70, 49>>

\* x & m # 0, for m a single bit
HasBit(x, m) == (x \div m) % 2 = 1
\* x & ~m
ClearBit(x, m) == IF HasBit(x, m) THEN x - m ELSE x
\* x | m
SetBit(x, m) == IF HasBit(x, m) THEN x ELSE x + m

Max(a, b) == IF a >= b THEN a ELSE b
Min(a, b) == IF a <= b THEN a ELSE b
Abs(a) == IF a >= 0 THEN a ELSE -a

\* The PCA9685 after power-on: asleep, responding to all-call, outputs off.
PowerOn(reg) ==
    IF reg = MODE1 THEN 17
    ELSE IF reg = MODE2 THEN OUTDRV
    ELSE IF reg = PRE_SCALE THEN 30
    ELSE IF reg >= LED0_ON_L /\ reg < LED0_ON_L + 4 * NumChannels
            /\ (reg - LED0_ON_L) % 4 = 3 THEN FULL
    ELSE 0

\* The register file is kept as the registers that differ from their
\* power-on value.
PowerOnRegs == [reg \in {} |-> 0]

\* the byte register reg holds
Reg(r, reg) == IF reg \in DOMAIN r THEN r[reg] ELSE PowerOn(reg)

\* the register file with val stored in register reg
WriteReg(r, reg, val) ==
    IF val = PowerOn(reg)
    THEN [x \in DOMAIN r \ {reg} |-> r[x]]
    ELSE [x \in DOMAIN r \cup {reg} |-> IF x = reg THEN val ELSE r[x]]

----------------------------------------------------------------------------
(* The bus.  A context carries the registers, the transaction log, the      *)
(* count of transactions made and the pending exception: once err is set    *)
(* the statements that follow are skipped, as after a raise.                *)

Ctx(r, loaded, addr, failAt) ==
    [regs |-> r, log |-> <<>>, n |-> 0, failAt |-> failAt, err |-> "ok",
     ll |-> loaded, addr |-> addr]

Tx(kind, addr, reg, val, ok) ==
    [kind |-> kind, addr |-> addr, reg |-> reg, val |-> val, ok |-> ok]

\* bus.write_byte_data(PCA_ADDR, reg, val)
write_byte_data(B, reg, val) ==
    IF B.err # "ok" THEN B
    ELSE IF B.n + 1 = B.failAt
    THEN [B EXCEPT !.n = B.n + 1, !.err = "BusError",
                   !.log = Append(B.log, Tx("w", B.addr, reg, val, FALSE))]
    ELSE [B EXCEPT !.n = B.n + 1, !.regs = WriteReg(B.regs, reg, val),
                   !.log = Append(B.log, Tx("w", B.addr, reg, val, TRUE))]

\* bus.read_byte_data(PCA_ADDR, reg); the value read is Reg(B.regs, reg)
read_byte_data(B, reg) ==
    IF B.err # "ok" THEN B
    ELSE IF B.n + 1 = B.failAt
    THEN [B EXCEPT !.n = B.n + 1, !.err = "BusError",
                   !.log = Append(B.log, Tx("r", B.addr, reg, 0, FALSE))]
    ELSE [B EXCEPT !.n = B.n + 1,
                   !.log = Append(B.log, Tx("r", B.addr, reg, Reg(B.regs, reg), TRUE))]

\* find_pca_addr: probe the candidates in order; responder is the index of
\* the first one that answers, 0 when none does.
find_pca_addr(B, responder) ==
    LET last == IF responder = 0 THEN Len(Candidates) ELSE responder
        probes == [i \in 1..last |->
                     Tx("r", Candidates[i], MODE1,
                        IF i = responder THEN Reg(B.regs, MODE1) ELSE 0,
                        i = responder)]
    IN  IF responder = 0
        THEN [B EXCEPT !.log = B.log \o probes, !.err = "RuntimeError"]
        ELSE [B EXCEPT !.log = B.log \o probes, !.addr = Candidates[responder]]

\* _get_lowlevel: import module test on first use (which opens the bus and
\* runs find_pca_addr); any failure of the import becomes ImportError.
get_lowlevel(B, responder) ==
    IF B.err # "ok" \/ B.ll THEN B
    ELSE LET F == find_pca_addr(B, responder)
         IN  IF F.err # "ok" THEN [F EXCEPT !.err = "ImportError"]
             ELSE [F EXCEPT !.ll = TRUE]

----------------------------------------------------------------------------
(* Channel duty encoding *)

ChannelBase(ch) == LED0_ON_L + 4 * ch

_write_channel_raw(B, ch, on, off) ==
    LET base == ChannelBase(ch)
        B1 == write_byte_data(B, base + 0, on % 256)
        B2 == write_byte_data(B1, base + 1, (on \div 256) % 16)
        B3 == write_byte_data(B2, base + 2, off % 256)
    IN  write_byte_data(B3, base + 3, (off \div 256) % 16)

WriteBlock(B, ch, b0, b1, b2, b3) ==
    LET base == ChannelBase(ch)
        B1 == write_byte_data(B, base + 0, b0)
        B2 == write_byte_data(B1, base + 1, b1)
        B3 == write_byte_data(B2, base + 2, b2)
    IN  write_byte_data(B3, base + 3, b3)

ClampDuty(duty) == Max(0, Min(MaxDuty, duty))

set_channel_pwm_naive(B, ch, duty0) ==
    _write_channel_raw(B, ch, 0, ClampDuty(duty0))

set_channel_pwm(B, ch, duty0) ==
    LET duty == ClampDuty(duty0)
    IN  IF duty <= 0 THEN WriteBlock(B, ch, 0, 0, 0, FULL)
        ELSE IF duty >= MaxDuty THEN WriteBlock(B, ch, 0, FULL, 0, 0)
        ELSE _write_channel_raw(B, ch, 0, duty)

set_channel_digital(B, ch, high) ==
    set_channel_pwm(B, ch, IF high THEN MaxDuty ELSE 0)

----------------------------------------------------------------------------
(* Reading a channel back from the register file *)

Block(r, ch) ==
    <<Reg(r, ChannelBase(ch)), Reg(r, ChannelBase(ch) + 1),
      Reg(r, ChannelBase(ch) + 2), Reg(r, ChannelBase(ch) + 3)>>

FullOff == <<0, 0, 0, FULL>>
FullOn == <<0, FULL, 0, 0>>


----------------------------------------------------------------------------
(* Specification SpecChannel: scripts driving the channel API of test.py    *)
(* directly, on a controller fresh from power-on.                           *)

MaxChanCalls == 1
ExtraChannels == 1

\* channel arguments, ExtraChannels beyond either end of 0..15
ChanInputs == (0 - ExtraChannels)..(NumChannels - 1 + ExtraChannels)
DutyInputs == {-1, 0, 1, 255, 256, 2047, 4094, 4095, 4096}
\* which transaction of an operation raises, 0 for none
ChanFailPoints == 0..4

NoOp == [name |-> "none"]
NoPrev == [mag |-> 0, duty |-> 0, set |-> FALSE]

InitChannel ==
    /\ regs = PowerOnRegs
    /\ log = <<>>
    /\ ll = TRUE
    /\ pcaAddr = Candidates[1]
    /\ op = NoOp
    /\ res = "ok"
    /\ prev = NoPrev
    /\ calls = 0
    /\ pc = "idle"
    /\ idx = 0
    /\ failed = {}
    /\ attempted = {}

Commit(B) ==
    /\ regs' = B.regs
    /\ log' = B.log
    /\ res' = B.err
    /\ ll' = B.ll
    /\ pcaAddr' = B.addr

SetChannelPwm(ch, duty, failAt) ==
    /\ calls < MaxChanCalls
    /\ Commit(set_channel_pwm(Ctx(regs, ll, pcaAddr, failAt), ch, duty))
    /\ op' = [name |-> "set_channel_pwm", ch |-> ch, duty |-> duty]
    /\ calls' = calls + 1
    /\ UNCHANGED <<prev, pc, idx, failed, attempted>>

SetChannelDigital(ch, high, failAt) ==
    /\ calls < MaxChanCalls
    /\ Commit(set_channel_digital(Ctx(regs, ll, pcaAddr, failAt), ch, high))
    /\ op' = [name |-> "set_channel_digital", ch |-> ch, high |-> high]
    /\ calls' = calls + 1
    /\ UNCHANGED <<prev, pc, idx, failed, attempted>>

NextChannel ==
    \/ \E ch \in ChanInputs, d \in DutyInputs, f \in ChanFailPoints :
           SetChannelPwm(ch, d, f)
    \/ \E ch \in ChanInputs, h \in BOOLEAN, f \in ChanFailPoints :
           SetChannelDigital(ch, h, f)

SpecChannel == InitChannel /\ [][NextChannel]_vars


\* C2: after a set_channel_pwm(ch, duty) that returned, for ch in 0..15, the
\* four registers of the channel hold the full-off encoding (0, 0, 0, 0x10)
\* when duty <= 0, the full-on encoding (0, 0x10, 0, 0) when duty >= 4095,
\* and otherwise on = 0 and off-low + 256 * off-high = duty with bit 0x10
\* clear in both high bytes.
C2_ChannelEncoding ==
    (op.name = "set_channel_pwm" /\ res = "ok" /\ op.ch \in 0..15) =>
        LET b == Block(regs, op.ch)
        IN  /\ op.duty <= 0 => b = <<0, 0, 0, 16>>
            /\ op.duty >= 4095 => b = <<0, 16, 0, 0>>
            /\ op.duty \in 1..4094 =>
                   /\ b[1] = 0 /\ b[2] = 0
                   /\ b[3] + 256 * b[4] = op.duty
                   /\ b[3] \in 0..255
                   /\ ~HasBit(b[2], 16) /\ ~HasBit(b[4], 16)
                   /\ b # <<0, 0, 0, 16>> /\ b # <<0, 16, 0, 0>>

C2_Witness ==
    /\ op.name = "set_channel_pwm" /\ res = "ok"
    /\ op.ch = 15 /\ op.duty = 2047
    /\ Block(regs, 15) = <<0, 0, 255, 7>>

\* C6: a channel operation given a channel outside 0..15 fails and writes
\* no register, and every write of a channel operation targets a register
\* of the channel block 0x06 .. 0x06 + 4*15 + 3.
C6_OutOfRangeRejected ==
    op.name \in {"set_channel_pwm", "set_channel_digital"} =>
        /\ \A i \in 1..Len(log) : log[i].kind = "w" => log[i].reg \in 6..69
        /\ op.ch \notin 0..15 =>
               /\ res # "ok"
               /\ \A i \in 1..Len(log) : ~(log[i].kind = "w" /\ log[i].ok)


----------------------------------------------------------------------------
(* Mode and frequency programming *)

set_mode_defaults(B) ==
    LET R == read_byte_data(B, MODE1)
        oldmode == Reg(B.regs, MODE1)
        B1 == write_byte_data(R, MODE1, SetBit(ClearBit(oldmode, RESTART), SLEEP))
        B2 == write_byte_data(B1, MODE2, OUTDRV)
    IN  write_byte_data(B2, MODE1,
                        SetBit(SetBit(ClearBit(oldmode, RESTART), SLEEP), AI))

\* int(25000000.0 / (4096.0 * freq_hz) - 1.0 + 0.5), for the frequencies
\* whose quotient is at least 0.5
Prescale(freq_hz) == (50000000 - 4096 * freq_hz) \div (8192 * freq_hz)

\* The MODE1 values set_pwm_freq writes, from the MODE1 value it read
SleepMode(oldmode) == SetBit(SetBit(ClearBit(oldmode, RESTART), SLEEP), AI)
WakeMode(oldmode) == SetBit(ClearBit(oldmode, SLEEP), AI)
RestartMode(oldmode) ==
    SetBit(SetBit(ClearBit(oldmode, SLEEP), RESTART), AI) % 256

set_pwm_freq_awake(B, freq_hz) ==
    LET R == read_byte_data(B, MODE1)
        oldmode == Reg(B.regs, MODE1)
        B1 == write_byte_data(R, PRE_SCALE, Prescale(freq_hz))
        B2 == write_byte_data(B1, MODE1, SleepMode(oldmode))
        B3 == write_byte_data(B2, MODE1, WakeMode(oldmode))
    IN  write_byte_data(B3, MODE1, RestartMode(oldmode))

set_pwm_freq(B, freq_hz) ==
    LET R == read_byte_data(B, MODE1)
        oldmode == Reg(B.regs, MODE1)
        B1 == write_byte_data(R, MODE1, SleepMode(oldmode))
        B2 == write_byte_data(B1, PRE_SCALE, Prescale(freq_hz))
        B3 == write_byte_data(B2, MODE1, WakeMode(oldmode))
    IN  write_byte_data(B3, MODE1, RestartMode(oldmode))

\* MOTORS of test.py, in dictionary order
MOTORS == << [pwm |-> 0, dir |-> 2], [pwm |-> 1, dir |-> 3],
             [pwm |-> 14, dir |-> 12], [pwm |-> 15, dir |-> 13] >>

RECURSIVE ZeroMotors(_, _)
ZeroMotors(B, i) ==
    IF i > Len(MOTORS) THEN B
    ELSE ZeroMotors(set_channel_pwm(set_channel_digital(B, MOTORS[i].dir, FALSE),
                                    MOTORS[i].pwm, 0),
                    i + 1)

initialize(B, f_pwm_hz) ==
    LET Z == ZeroMotors(set_pwm_freq(set_mode_defaults(B), f_pwm_hz), 1)
    IN  read_byte_data(read_byte_data(Z, MODE1), PRE_SCALE)

----------------------------------------------------------------------------
(* Specification SpecMode: the mode and frequency operations of test.py on  *)
(* a controller whose MODE1 register holds any byte.                        *)

FreqInputs == {24, 50, 1000, 1526}
ModeFailPoints == 0..5

InitMode ==
    /\ \E m \in 0..255 : regs = WriteReg(PowerOnRegs, MODE1, m)
    /\ log = <<>>
    /\ ll = TRUE
    /\ pcaAddr = Candidates[1]
    /\ op = NoOp
    /\ res = "ok"
    /\ prev = NoPrev
    /\ calls = 0
    /\ pc = "idle"
    /\ idx = 0
    /\ failed = {}
    /\ attempted = {}

SetModeDefaults(failAt) ==
    /\ Commit(set_mode_defaults(Ctx(regs, ll, pcaAddr, failAt)))
    /\ op' = [name |-> "set_mode_defaults"]
    /\ UNCHANGED <<prev, calls, pc, idx, failed, attempted>>

SetPwmFreq(freq_hz, failAt) ==
    /\ Commit(set_pwm_freq(Ctx(regs, ll, pcaAddr, failAt), freq_hz))
    /\ op' = [name |-> "set_pwm_freq", freq |-> freq_hz]
    /\ UNCHANGED <<prev, calls, pc, idx, failed, attempted>>

NextMode ==
    \/ \E f \in ModeFailPoints : SetModeDefaults(f)
    \/ \E hz \in FreqInputs, f \in ModeFailPoints : SetPwmFreq(hz, f)

SpecMode == InitMode /\ [][NextMode]_vars

\* Indices of the log's writes to register reg
WritesTo(reg) == {i \in 1..Len(log) : log[i].kind = "w" /\ log[i].reg = reg}

\* C9: in set_pwm_freq, PRESCALE is written only when the most recent MODE1
\* write succeeded with SLEEP (0x10) set, the next MODE1 write after it has
\* SLEEP clear, and a set_pwm_freq that returns has written MODE1, PRESCALE,
\* MODE1, MODE1 in that order, the last with RESTART (0x80) set and SLEEP
\* clear -- whatever MODE1 held before.
C9_PrescaleOnlyAsleep ==
    op.name = "set_pwm_freq" =>
        /\ \A i \in WritesTo(254) :
               /\ \E j \in WritesTo(0) :
                      /\ j < i
                      /\ \A k \in WritesTo(0) : k < i => k <= j
                      /\ log[j].ok
                      /\ HasBit(log[j].val, 16)
               /\ \A j \in WritesTo(0) :
                      (j > i /\ \A k \in WritesTo(0) : k > i => k >= j)
                          => ~HasBit(log[j].val, 16)
        /\ res = "ok" =>
               /\ [i \in 1..(Len(log) - 1) |-> log[i + 1].reg] = <<0, 254, 0, 0>>
               /\ \A i \in 2..Len(log) : log[i].kind = "w"
               /\ HasBit(log[Len(log)].val, 128)
               /\ ~HasBit(log[Len(log)].val, 16)
               /\ log[Len(log)].val \in 0..255

\* a set_pwm_freq(1000) that returned, on a controller that was awake with
\* RESTART set
C9_Witness ==
    /\ op.name = "set_pwm_freq" /\ res = "ok" /\ op.freq = 1000
    /\ log[1].kind = "r" /\ log[1].val = 129
    /\ Reg(regs, PRE_SCALE) = 5
    /\ Reg(regs, MODE1) = 161


----------------------------------------------------------------------------
(* Motor *)

\* A power argument: a number, or a value float() raises on
Num(v) == [num |-> TRUE, val |-> v]
NonNumeric == [num |-> FALSE, val |-> 0]

Motor(pwm_ch, dir_ch, direction, max_percent, deadband) ==
    [pwm_ch |-> pwm_ch, dir_ch |-> dir_ch, direction |-> direction,
     max_percent |-> max_percent, deadband |-> deadband]

DefaultMaxPercent == 40
DefaultDeadband == 2

\* int((magnitude / 100.0) * 4095): truncation
ScaleDuty_round(magnitude) == (2 * magnitude * MaxDuty + 100) \div 200
ScaleDuty(magnitude) == (magnitude * MaxDuty) \div 100

Polarity(m) == IF m.direction >= 0 THEN 1 ELSE -1

Motor_set_power_duty_first(B, m, power, responder) ==
    LET L == get_lowlevel(B, responder)
    IN  IF L.err # "ok" THEN L
        ELSE IF ~power.num THEN [L EXCEPT !.err = "ValueError"]
        ELSE LET effective == power.val * Polarity(m)
                 magnitude == Abs(effective)
                 duty == IF magnitude <= m.deadband THEN 0
                         ELSE ScaleDuty(Min(m.max_percent, magnitude))
             IN  set_channel_digital(set_channel_pwm(L, m.pwm_ch, duty),
                                     m.dir_ch, effective >= 0)

Motor_set_power_no_cap(B, m, power, responder) ==
    LET L == get_lowlevel(B, responder)
    IN  IF L.err # "ok" THEN L
        ELSE IF ~power.num THEN [L EXCEPT !.err = "ValueError"]
        ELSE LET effective == power.val * Polarity(m)
                 forward == effective >= 0
                 D == set_channel_digital(L, m.dir_ch, forward)
                 magnitude == Abs(effective)
             IN  IF magnitude <= m.deadband
                 THEN set_channel_pwm(D, m.pwm_ch, 0)
                 ELSE set_channel_pwm(D, m.pwm_ch, ScaleDuty(magnitude))

\* Motor.set_power: the low-level layer is fetched first, then the power is
\* converted, the direction written, and the duty written.
Motor_set_power(B, m, power, responder) ==
    LET L == get_lowlevel(B, responder)
    IN  IF L.err # "ok" THEN L
        ELSE IF ~power.num THEN [L EXCEPT !.err = "ValueError"]
        ELSE LET effective == power.val * Polarity(m)
                 forward == effective >= 0
                 D == set_channel_digital(L, m.dir_ch, forward)
                 magnitude == Abs(effective)
             IN  IF magnitude <= m.deadband
                 THEN set_channel_pwm(D, m.pwm_ch, 0)
                 ELSE set_channel_pwm(D, m.pwm_ch,
                                      ScaleDuty(Min(m.max_percent, magnitude)))

\* The duty a channel's registers encode
DutyHeld(r, ch) ==
    LET b == Block(r, ch)
    IN  IF HasBit(b[4], FULL) THEN 0
        ELSE IF HasBit(b[2], FULL) THEN MaxDuty
        ELSE b[3] + 256 * (b[4] % 16)

----------------------------------------------------------------------------
(* Specification SpecMotor: one Motor, in a process that has not imported   *)
(* module test yet, given set_power calls.                                  *)

MaxSmallPower == 6

MotorConfigs ==
    { Motor(1, 3, 1, DefaultMaxPercent, DefaultDeadband),
      Motor(14, 13, -1, DefaultMaxPercent, DefaultDeadband),
      Motor(0, 2, 1, 100, DefaultDeadband),
      Motor(15, 12, -1, 10, 0) }

\* the small magnitudes, and those around the caps and around 100
PowerMagnitudes == (0..MaxSmallPower) \cup {9, 10, 11, 30, 39, 40, 41, 99, 100, 101}
PowerInputs ==
    {Num(v) : v \in PowerMagnitudes} \cup {Num(-v) : v \in PowerMagnitudes}
        \cup {NonNumeric}
\* which candidate address answers the probe of the import: none, the
\* first, the last
Responders == {0, 1, Len(Candidates)}

InitMotor ==
    /\ regs = PowerOnRegs
    /\ log = <<>>
    /\ ll = FALSE
    /\ pcaAddr = 0
    /\ \E m \in MotorConfigs : op = [name |-> "Motor", m |-> m]
    /\ res = "ok"
    /\ prev = NoPrev
    /\ calls = 0
    /\ pc = "idle"
    /\ idx = 0
    /\ failed = {}
    /\ attempted = {}

\* op is a set_power that returned after writing a scaled duty
Scaled ==
    /\ op.name = "set_power" /\ res = "ok"
    /\ op.power.num /\ Abs(op.power.val) > op.m.deadband

MotorSetPower(power, responder, failAt) ==
    /\ ll => responder = 1
    /\ Commit(Motor_set_power(Ctx(regs, ll, pcaAddr, failAt), op.m, power, responder))
    /\ op' = [name |-> "set_power", m |-> op.m, power |-> power, cold |-> ~ll]
    /\ prev' = IF Scaled
               THEN [mag |-> Abs(op.power.val),
                     duty |-> DutyHeld(regs, op.m.pwm_ch), set |-> TRUE]
               ELSE prev
    /\ UNCHANGED <<calls, pc, idx, failed, attempted>>

NextMotor ==
    \E p \in PowerInputs, r \in Responders : MotorSetPower(p, r, 0)

SpecMotor == InitMotor /\ [][NextMotor]_vars

----------------------------------------------------------------------------
(* Specification SpecMotorBus: one Motor of the default configuration on a  *)
(* bus whose transactions may raise.                                        *)

BusMotorConfigs ==
    { Motor(1, 3, 1, DefaultMaxPercent, DefaultDeadband),
      Motor(14, 13, -1, DefaultMaxPercent, DefaultDeadband) }
BusPowerInputs == {Num(0), Num(-2), Num(3), Num(-30), Num(100), NonNumeric}
MotorFailPoints == 0..8

InitMotorBus ==
    /\ regs = PowerOnRegs
    /\ log = <<>>
    /\ ll = TRUE
    /\ pcaAddr = Candidates[1]
    /\ \E m \in BusMotorConfigs : op = [name |-> "Motor", m |-> m]
    /\ res = "ok"
    /\ prev = NoPrev
    /\ calls = 0
    /\ pc = "idle"
    /\ idx = 0
    /\ failed = {}
    /\ attempted = {}

NextMotorBus ==
    \E p \in BusPowerInputs, f \in MotorFailPoints : MotorSetPower(p, 1, f)

SpecMotorBus == InitMotorBus /\ [][NextMotorBus]_vars

----------------------------------------------------------------------------
(* Properties of Motor.set_power *)

\* a / b rounded to the nearest integer, halves to the even one (Python's round)
RoundNearest(a, b) ==
    LET q == a \div b
        r == a % b
    IN  IF 2 * r < b THEN q
        ELSE IF 2 * r > b THEN q + 1
        ELSE IF q % 2 = 0 THEN q ELSE q + 1

\* the magnitude Motor.set_power scales: min(max_percent, |power|)
CappedMagnitude == Min(op.m.max_percent, Abs(op.power.val))

\* the duty of a later scaled call is ordered as its magnitude is
Monotone ==
    (prev.set /\ Scaled) =>
        /\ prev.mag <= Abs(op.power.val) => prev.duty <= DutyHeld(regs, op.m.pwm_ch)
        /\ prev.mag >= Abs(op.power.val) => prev.duty >= DutyHeld(regs, op.m.pwm_ch)

\* C1 as stated: for deadband < |power| the duty written to the pwm channel
\* is round(min(max_percent, |power|) / 100 * 4095), rounded to nearest, and
\* it is monotonically non-decreasing in |power|.
C1_DutyRounded ==
    /\ Scaled => DutyHeld(regs, op.m.pwm_ch) = RoundNearest(CappedMagnitude * 4095, 100)
    /\ Monotone

\* C1 as amended: for deadband < |power| the duty written to the pwm channel
\* is min(max_percent, |power|) / 100 * 4095 truncated to an integer (the
\* largest d with 100 * d <= 4095 * magnitude), and it is monotonically
\* non-decreasing in |power|.
C1_DutyTruncated ==
    /\ Scaled =>
           LET d == DutyHeld(regs, op.m.pwm_ch)
           IN  /\ 100 * d <= 4095 * CappedMagnitude
               /\ 4095 * CappedMagnitude < 100 * (d + 1)
               /\ log[Len(log)].kind = "w" /\ log[Len(log)].ok
               /\ log[Len(log)].reg = 6 + 4 * op.m.pwm_ch + 3
    /\ Monotone

\* set_power(-41) capped at 40 percent, after a set_power of magnitude 3
\* whose duty 122.85 was truncated to 122
C1_Witness ==
    /\ Scaled /\ op.power = Num(-41) /\ op.m.max_percent = 40
    /\ DutyHeld(regs, op.m.pwm_ch) = 1638
    /\ prev.set /\ prev.mag = 3 /\ prev.duty = 122

\* C5: set_power with a non-numeric power raises the invalid-input error
\* with no bus transaction before it, address discovery included.
C5_RejectedBeforeHardware ==
    (op.name = "set_power" /\ ~op.power.num) =>
        /\ res = "ValueError"
        /\ log = <<>>

\* C10: a set_power with numeric power writes the direction channel first,
\* high iff power * sign(polarity) >= 0, and only then the pwm channel, once;
\* within the deadband the duty written is 0.  (A bus error ends the call
\* where it happens, so the log is a prefix of that sequence.)
C10_DirectionBeforeDuty ==
    (op.name = "set_power" /\ op.power.num) =>
        LET m == op.m
            fwd == op.power.val * (IF m.direction >= 0 THEN 1 ELSE -1) >= 0
            dirEnc == IF fwd THEN <<0, 16, 0, 0>> ELSE <<0, 0, 0, 16>>
            dirBase == 6 + 4 * m.dir_ch
            pwmBase == 6 + 4 * m.pwm_ch
        IN  /\ Len(log) <= 8
            /\ \A i \in 1..Len(log) :
                   /\ log[i].kind = "w"
                   /\ i <= 4 => log[i].reg = dirBase + i - 1 /\ log[i].val = dirEnc[i]
                   /\ i > 4 => log[i].reg = pwmBase + i - 5
                   /\ i < Len(log) => log[i].ok
            /\ res = "ok" =>
                   /\ Len(log) = 8
                   /\ Block(regs, m.dir_ch) = dirEnc
                   /\ Abs(op.power.val) <= m.deadband =>
                          Block(regs, m.pwm_ch) = <<0, 0, 0, 16>>

\* set_power(-2) on the reversed motor: forward, within the deadband
C10_Witness ==
    /\ op.name = "set_power" /\ res = "ok"
    /\ op.power = Num(-2) /\ op.m.direction = -1
    /\ Len(log) = 8
    /\ Block(regs, op.m.dir_ch) = FullOn
    /\ Block(regs, op.m.pwm_ch) = FullOff

----------------------------------------------------------------------------
(* XDrive *)

\* self._motors of a default XDrive: BackLeft, FrontLeft, BackRight, FrontRight
XDriveMotors ==
    << Motor(1, 3, 1, DefaultMaxPercent, DefaultDeadband),
       Motor(0, 2, 1, DefaultMaxPercent, DefaultDeadband),
       Motor(14, 13, -1, DefaultMaxPercent, DefaultDeadband),
       Motor(15, 12, -1, DefaultMaxPercent, DefaultDeadband) >>

RECURSIVE SetPowerFrom(_, _, _, _)
SetPowerFrom(B, powers, i, responder) ==
    IF i > Len(XDriveMotors) THEN B
    ELSE SetPowerFrom(Motor_set_power(B, XDriveMotors[i], powers[i], responder),
                      powers, i + 1, responder)

\* XDrive.setPower with try/except around each motor: every motor is
\* attempted and the first exception is kept
RECURSIVE SetPowerIsolated(_, _, _, _)
SetPowerIsolated(B, powers, i, responder) ==
    IF i > Len(XDriveMotors) THEN B
    ELSE LET A == Motor_set_power([B EXCEPT !.err = "ok"], XDriveMotors[i],
                                  powers[i], responder)
         IN  SetPowerIsolated([A EXCEPT !.err = IF B.err # "ok" THEN B.err ELSE A.err],
                              powers, i + 1, responder)

XDrive_setPower_isolated(B, powers, responder) ==
    SetPowerIsolated(B, powers, 1, responder)

\* XDrive.setPower(backLeftPower, frontLeftPower, backRightPower, frontRightPower)
XDrive_setPower(B, powers, responder) == SetPowerFrom(B, powers, 1, responder)

XDrive_mix_swapped(x, y, h) ==
    <<y - x - h, y + x + h, y - x + h, y + x - h>>

\* bl, fl, br, fr of XDrive.drive
XDrive_mix(x, y, h) ==
    <<y - x - h, y + x + h, y + x - h, y - x + h>>

XDrive_drive(B, x, y, h, responder) ==
    LET c == XDrive_mix(x, y, h)
    IN  XDrive_setPower(B, [i \in 1..4 |-> Num(c[i])], responder)

XDrive_all_stop(B, responder) ==
    SetPowerFrom(B, [i \in 1..4 |-> Num(0)], 1, responder)

\* The controller after XDrive() has run initialize(1000) on it
DefaultFrequency == 1000
InitializedRegs ==
    initialize(Ctx(PowerOnRegs, TRUE, Candidates[1], 0), DefaultFrequency).regs

----------------------------------------------------------------------------
(* Specification SpecDrive: a default XDrive, constructed with hardware     *)
(* initialisation, given numeric commands on a bus that does not fail.      *)

MaxMix == 100

MixInputs == {-MaxMix, -30, 0, 30, MaxMix}
WheelPowers == {Num(-101), Num(0), Num(30)}

InitDrive ==
    /\ regs = InitializedRegs
    /\ log = <<>>
    /\ ll = TRUE
    /\ pcaAddr = Candidates[1]
    /\ op = [name |-> "XDrive"]
    /\ res = "ok"
    /\ prev = NoPrev
    /\ calls = 0
    /\ pc = "idle"
    /\ idx = 0
    /\ failed = {}
    /\ attempted = {}

Drive(x, y, h, failAt) ==
    /\ pc = "idle"
    /\ Commit(XDrive_drive(Ctx(regs, ll, pcaAddr, failAt), x, y, h, 1))
    /\ op' = [name |-> "drive", x |-> x, y |-> y, h |-> h,
              cmds |-> XDrive_mix(x, y, h)]
    /\ UNCHANGED <<prev, calls, pc, idx, failed, attempted>>

SetPowerCall(powers, failAt) ==
    /\ pc = "idle"
    /\ Commit(XDrive_setPower(Ctx(regs, ll, pcaAddr, failAt), powers, 1))
    /\ op' = [name |-> "setPower", powers |-> powers]
    /\ UNCHANGED <<prev, pc, idx, failed, attempted>>

SetPower(powers, failAt) ==
    /\ SetPowerCall(powers, failAt)
    /\ UNCHANGED calls

AllStop(failAt) ==
    /\ pc = "idle"
    /\ Commit(XDrive_all_stop(Ctx(regs, ll, pcaAddr, failAt), 1))
    /\ op' = [name |-> "all_stop"]
    /\ UNCHANGED <<prev, calls, pc, idx, failed, attempted>>

NextDrive ==
    \/ \E x \in MixInputs, y \in MixInputs, h \in MixInputs : Drive(x, y, h, 0)
    \/ \E powers \in [1..4 -> WheelPowers] : SetPower(powers, 0)
    \/ AllStop(0)

SpecDrive == InitDrive /\ [][NextDrive]_vars

\* the wheels' pwm channels
WheelPwm == {0, 1, 14, 15}

\* C7: drive(x, y, h) commands BackLeft = y - x - h, FrontLeft = y + x + h,
\* BackRight = y + x - h, FrontRight = y - x + h, in that order; each wheel's
\* direction line and duty are those of its command (direction high iff
\* command * polarity >= 0, duty zero iff |command| <= 2); drive(0,0,0)
\* commands all 0, drive(0,100,0) all 100, drive(100,0,0) commands
\* FrontLeft = BackRight = 100 and BackLeft = FrontRight = -100.
C7_DriveMix ==
    op.name = "drive" =>
        LET c == <<op.y - op.x - op.h, op.y + op.x + op.h,
                   op.y + op.x - op.h, op.y - op.x + op.h>>
            pwm == <<1, 0, 14, 15>>
            dir == <<3, 2, 13, 12>>
            pol == <<1, 1, -1, -1>>
        IN  /\ op.cmds = c
            /\ res = "ok"
            /\ \A i \in 1..4 :
                   /\ Block(regs, dir[i]) =
                          (IF c[i] * pol[i] >= 0 THEN <<0, 16, 0, 0>> ELSE <<0, 0, 0, 16>>)
                   /\ (DutyHeld(regs, pwm[i]) = 0) <=> (Abs(c[i]) <= 2)
                   /\ Abs(c[i]) \in 3..40 =>
                          DutyHeld(regs, pwm[i]) = (Abs(c[i]) * 4095) \div 100
            /\ (op.x = 0 /\ op.y = 0 /\ op.h = 0) => op.cmds = <<0, 0, 0, 0>>
            /\ (op.x = 0 /\ op.y = 100 /\ op.h = 0) => op.cmds = <<100, 100, 100, 100>>
            /\ (op.x = 100 /\ op.y = 0 /\ op.h = 0) => op.cmds = <<-100, 100, 100, -100>>

\* the strafe case drive(100, 0, 0)
C7_Witness ==
    /\ op.name = "drive" /\ op.x = 100 /\ op.y = 0 /\ op.h = 0
    /\ op.cmds = <<-100, 100, 100, -100>>
    /\ Block(regs, 2) = FullOn /\ Block(regs, 3) = FullOff
    /\ Block(regs, 13) = FullOff /\ Block(regs, 12) = FullOn

\* C8: after any sequence of drive, setPower and all_stop calls with numeric
\* inputs, each wheel pwm channel (0, 1, 14, 15) holds a duty of at most
\* 1638, the duty of the 40 percent cap, and no call is rejected.
C8_DutyCapped ==
    /\ \A ch \in WheelPwm : DutyHeld(regs, ch) <= 1638
    /\ res = "ok"

\* drive(100, 100, 100): FrontLeft is commanded 300 and runs at the cap
C8_Witness ==
    /\ op.name = "drive" /\ op.cmds[2] = 300
    /\ res = "ok"
    /\ DutyHeld(regs, 0) = 1638

----------------------------------------------------------------------------
(* Specification SpecDriveBus: XDrive.setPower on a bus whose transactions  *)
(* may raise, with powers that may be non-numeric.                          *)

MaxBusCalls == 1

BusWheelPowers == {Num(30), NonNumeric}
\* a setPower makes up to 4 * 8 transactions
SetPowerFailPoints == 0..32

BusSetPower(powers, failAt) ==
    /\ calls < MaxBusCalls
    /\ SetPowerCall(powers, failAt)
    /\ calls' = calls + 1

NextDriveBus ==
    \E powers \in [1..4 -> BusWheelPowers], f \in SetPowerFailPoints :
        BusSetPower(powers, f)

SpecDriveBus == InitDrive /\ [][NextDriveBus]_vars

\* the log's transactions on motor i's two channels
MotorTx(i) ==
    {k \in 1..Len(log) :
        \/ log[k].reg \in (6 + 4 * XDriveMotors[i].dir_ch)..(6 + 4 * XDriveMotors[i].dir_ch + 3)
        \/ log[k].reg \in (6 + 4 * XDriveMotors[i].pwm_ch)..(6 + 4 * XDriveMotors[i].pwm_ch + 3)}

\* the motors are written in the order BackLeft, FrontLeft, BackRight, FrontRight
InMotorOrder ==
    \A i \in 1..4, j \in 1..4 :
        i < j => \A a \in MotorTx(i), b \in MotorTx(j) : a < b

\* C3 as stated: setPower applies set_power to BackLeft, FrontLeft,
\* BackRight, FrontRight in that order, and a failure on one motor (a bus
\* error or an invalid input) does not keep set_power from being attempted
\* on the others: every motor given a number has its channels written to.
C3_AllMotorsAttempted ==
    op.name = "setPower" =>
        /\ InMotorOrder
        /\ \A i \in 1..4 : op.powers[i].num => MotorTx(i) # {}

\* C3 as amended: setPower applies set_power to BackLeft, FrontLeft,
\* BackRight, FrontRight in that order and stops at the first failure: the
\* exception leaves setPower, the motors before the failing one have been
\* written completely, and set_power is not attempted on the motors after it.
C3_StopsAtFirstFailure ==
    op.name = "setPower" =>
        /\ InMotorOrder
        /\ \A k \in 1..Len(log) : log[k].kind = "w" /\ (k < Len(log) => log[k].ok)
        /\ res = "ok" =>
               /\ \A i \in 1..4 : op.powers[i].num /\ Cardinality(MotorTx(i)) = 8
               /\ Len(log) = 32 /\ log[32].ok
        /\ res = "ValueError" =>
               \E j \in 1..4 :
                   /\ ~op.powers[j].num
                   /\ \A i \in 1..4 :
                          /\ i < j => op.powers[i].num /\ Cardinality(MotorTx(i)) = 8
                          /\ i >= j => MotorTx(i) = {}
                   /\ Len(log) = 8 * (j - 1)
                   /\ Len(log) > 0 => log[Len(log)].ok
        /\ res = "BusError" =>
               /\ Len(log) > 0 /\ ~log[Len(log)].ok
               /\ LET j == ((Len(log) - 1) \div 8) + 1
                  IN  \A i \in 1..4 :
                          /\ i <= j => op.powers[i].num
                          /\ i < j => Cardinality(MotorTx(i)) = 8
                          /\ i > j => MotorTx(i) = {}
        /\ res \in {"ok", "ValueError", "BusError"}

\* a bus error on FrontLeft's direction write: BackLeft is written,
\* BackRight and FrontRight are never attempted
C3_Witness ==
    /\ op.name = "setPower" /\ res = "BusError"
    /\ \A i \in 1..4 : op.powers[i].num
    /\ Len(log) = 12
    /\ Cardinality(MotorTx(1)) = 8
    /\ MotorTx(3) = {} /\ MotorTx(4) = {}

----------------------------------------------------------------------------
(* XDrive.cleanup, one loop iteration at a time *)

DirChannels == <<2, 3, 12, 13>>

cleanup_zero_propagating(B, ch) == set_channel_pwm(B, ch, 0)

\* try: set_channel_pwm(ch, 0) / except Exception: pass
cleanup_zero(B, ch) == [set_channel_pwm(B, ch, 0) EXCEPT !.err = "ok"]

\* try: set_channel_digital(ch, False) / except Exception: pass
cleanup_low(B, ch) == [set_channel_digital(B, ch, FALSE) EXCEPT !.err = "ok"]

\* the channel an iteration wrote to, if a write of it raised
Raised(B, ch) == IF \E k \in 1..Len(B.log) : ~B.log[k].ok THEN {ch} ELSE {}
Touched(B, loop, ch) == IF B.log # <<>> THEN {<<loop, ch>>} ELSE {}

----------------------------------------------------------------------------
(* Specification SpecCleanup: an XDrive, constructed with or without        *)
(* hardware initialisation, is driven and then cleaned up on a bus whose    *)
(* writes may raise.                                                        *)

MaxFailedChannels == 2

CleanupMixInputs == {<<0, 0, 0>>, <<0, 100, 0>>, <<100, 0, 3>>}
CleanupResponders == {0, 1}

InitCleanup ==
    /\ \/ /\ regs = InitializedRegs
          /\ ll = TRUE
          /\ pcaAddr = Candidates[1]
          /\ op = [name |-> "XDrive"]
       \/ /\ regs = PowerOnRegs
          /\ ll = FALSE
          /\ pcaAddr = 0
          /\ op = [name |-> "XDrive"]
    /\ log = <<>>
    /\ res = "ok"
    /\ prev = NoPrev
    /\ calls = 0
    /\ pc = "idle"
    /\ idx = 0
    /\ failed = {}
    /\ attempted = {}

\* cleanup(): fetch the low-level layer; a failing import leaves cleanup
CleanupBegin(responder) ==
    /\ pc = "idle"
    /\ ll => responder = 1
    /\ LET B == get_lowlevel(Ctx(regs, ll, pcaAddr, 0), responder)
       IN  /\ Commit(B)
           /\ pc' = IF B.err = "ok" THEN "zero_pwm" ELSE "done"
    /\ op' = [name |-> "cleanup", cold |-> ~ll]
    /\ idx' = 0
    /\ failed' = {}
    /\ attempted' = {}
    /\ UNCHANGED <<prev, calls>>

\* for ch in range(16): one iteration
CleanupZeroPwm(failAt) ==
    /\ pc = "zero_pwm"
    /\ LET B == cleanup_zero(Ctx(regs, ll, pcaAddr, failAt), idx)
       IN  /\ Cardinality(failed \cup Raised(B, idx)) <= MaxFailedChannels
           /\ Commit(B)
           /\ failed' = failed \cup Raised(B, idx)
           /\ attempted' = attempted \cup Touched(B, "zero_pwm", idx)
           /\ pc' = IF B.err # "ok" THEN "done"
                    ELSE IF idx + 1 < NumChannels THEN "zero_pwm" ELSE "dirs_low"
           /\ idx' = IF B.err # "ok" THEN idx
                     ELSE IF idx + 1 < NumChannels THEN idx + 1 ELSE 1
    /\ UNCHANGED <<op, prev, calls>>

\* for ch in (2, 3, 12, 13): one iteration
CleanupDirLow(failAt) ==
    /\ pc = "dirs_low"
    /\ LET ch == DirChannels[idx]
           B == cleanup_low(Ctx(regs, ll, pcaAddr, failAt), ch)
       IN  /\ Cardinality(failed \cup Raised(B, ch)) <= MaxFailedChannels
           /\ Commit(B)
           /\ failed' = failed \cup Raised(B, ch)
           /\ attempted' = attempted \cup Touched(B, "dirs_low", ch)
           /\ pc' = IF B.err # "ok" THEN "done"
                    ELSE IF idx < Len(DirChannels) THEN "dirs_low" ELSE "done"
           /\ idx' = IF B.err = "ok" /\ idx < Len(DirChannels) THEN idx + 1 ELSE idx
    /\ UNCHANGED <<op, prev, calls>>

\* a drive before the cleanup, on a device that answers at the first address
CleanupDrive(x, y, h) ==
    /\ op.name = "XDrive"
    /\ Drive(x, y, h, 0)

NextCleanup ==
    \/ \E c \in CleanupMixInputs : CleanupDrive(c[1], c[2], c[3])
    \/ \E r \in CleanupResponders : CleanupBegin(r)
    \/ \E f \in ChanFailPoints : CleanupZeroPwm(f)
    \/ \E f \in ChanFailPoints : CleanupDirLow(f)

SpecCleanup == InitCleanup /\ [][NextCleanup]_vars


\* C4: cleanup does not raise whatever bus writes fail (it ends in an
\* exception only when the import of the low-level layer fails, before any
\* write); once it has returned it has written to every channel 0..15 in the
\* zeroing loop and to each direction channel 2, 3, 12, 13 in the second
\* loop, and every channel on which no write raised holds the full-off
\* encoding, so that without bus errors all 16 channels are off.
C4_CleanupNeverRaises ==
    op.name = "cleanup" =>
        /\ res \in {"ok", "ImportError"}
        /\ res = "ImportError" =>
               /\ op.cold /\ pc = "done" /\ ~ll
               /\ \A k \in 1..Len(log) : log[k].kind = "r" /\ ~log[k].ok
        /\ (pc = "done" /\ res = "ok") =>
               /\ attempted = ({"zero_pwm"} \X (0..15)) \cup ({"dirs_low"} \X {2, 3, 12, 13})
               /\ \A ch \in 0..15 :
                      ch \notin failed =>
                          Block(regs, ch) = <<0, 0, 0, 16>> /\ DutyHeld(regs, ch) = 0
               /\ failed = {} => \A ch \in 0..15 : Block(regs, ch) = <<0, 0, 0, 16>>

\* a cleanup that returned although writes on channels 1 and 13 raised:
\* channel 1 keeps its duty, the channels written without error are off
C4_Witness ==
    /\ op.name = "cleanup" /\ pc = "done" /\ res = "ok"
    /\ failed = {1, 13}
    /\ DutyHeld(regs, 1) = 1638
    /\ Block(regs, 0) = FullOff /\ Block(regs, 15) = FullOff
    /\ Block(regs, 3) = FullOff

============================================================================
